---- MODULE Spec2Model ----
(***************************************************************************)
(* Model of the Sonoff outlet firmware (src/main/main.c).                  *)
(*                                                                         *)
(* The firmware is a set of callbacks around a few globals:                *)
(*   switch_on    the HomeKit ON characteristic (main.c:99)                *)
(*   initialized  the one-time initialization flag (main.c:174)            *)
(*   status       the LED status handle (main.c:63)                        *)
(* plus the relay GPIO, the stored Wi-Fi configuration, the stored HomeKit *)
(* pairings and the reset tasks created by xTaskCreate.                    *)
(***************************************************************************)
EXTENDS Integers, Sequences, FiniteSets

\* ---------------------------------------------------------------- bounds
\* Reset tasks that long presses may create before the model stops taking
\* further long presses.
MaxResetTasks == 2
\* Notifications the model counts before it stops taking single presses.
MaxNotify == 2
\* Connected events the model counts before it stops delivering them.
MaxConnected == 2

\* ------------------------------------------------------------ vocabulary
\* HomeKit controllers that may hold a pairing.
Controllers == {"A", "B"}

\* wifi_config events: the handler singles out WIFI_CONFIG_CONNECTED
\* (main.c:182); the other two stand for every other status.
WifiEvents == {"unconfigured", "connecting", "connected"}

\* button_event_t values switched on in button_callback (main.c:113-132).
ButtonEvents == {"single_press", "double_press", "long_press", "unknown"}

\* Execution contexts that may run on_wifi_config_event.
WifiCtx == {1, 2}

\* The steps of reset_configuration_task in program order (main.c:75-89).
ResetSteps == << "signal_reset", "delay1", "erase_wifi", "delay2",
                 "erase_homekit", "delay3", "restart" >>

VARIABLES
    phase,           \* "boot" (before user_init), "starting" (inside
                     \* user_init, callback registered), "running",
                     \* "restarted"
    switch_on,       \* switch_on.value.bool_value
    relay_level,     \* level driven on relay_gpio; -1 = pin not driven yet
    status,          \* persistent pattern held by the LED handle
    last_signal,     \* last transient pattern given to led_status_signal
    led_by,          \* which call site called led_status_set last
    initialized,     \* static bool initialized
    server_inits,    \* calls of homekit_server_init
    ota_inits,       \* calls of ota_tftp_init_server
    wpc,             \* per context: position inside on_wifi_config_event
    wq,              \* per context: result of homekit_is_paired() at line 189
    wifi_last,       \* last event delivered to on_wifi_config_event
    connected_count, \* Connected events delivered
    pairings,        \* pairings in HomeKit storage
    wifi_stored,     \* a Wi-Fi configuration is stored
    stored_on,       \* ON value held in non-volatile storage outside the
                     \* firmware; no statement of main.c reads or writes it
    notify_count,    \* calls of homekit_characteristic_notify
    notify_value,    \* value passed to the last such call
    tasks,           \* reset tasks: [pc, did] per task created
    wifi_resets,     \* calls of wifi_config_reset
    homekit_resets   \* calls of homekit_server_reset

vars == << phase, switch_on, relay_level, status, last_signal, led_by,
           initialized, server_inits, ota_inits, wpc, wq, wifi_last,
           connected_count, pairings, wifi_stored, stored_on, notify_count,
           notify_value, tasks, wifi_resets, homekit_resets >>

\* Groups used in UNCHANGED clauses.
attrVars  == << switch_on, relay_level, notify_count, notify_value >>
ledVars   == << status, last_signal, led_by >>
wifiVars  == << initialized, server_inits, ota_inits, wpc, wq, wifi_last,
                connected_count >>
storeVars == << pairings, wifi_stored, stored_on >>
resetVars == << tasks, wifi_resets, homekit_resets >>

\* ---------------------------------------------------------------- helpers
\* relay_write: gpio_write(relay_gpio, on ? 1 : 0).
relay_write(on) == IF on THEN 1 ELSE 0

\* wifi_is_configured: wifi_config_get yields an ssid iff one is stored.
wifi_is_configured == wifi_stored

\* homekit_is_paired over the pairing storage `store`.
homekit_is_paired(store) == store # {}

\* The two patterns of main.c:189 exchanged.
paired_pattern_swapped(paired) ==
    IF paired THEN "mode_unpaired" ELSE "mode_normal"

\* The pattern chosen at main.c:189 from the pairing query.
paired_pattern(paired) == IF paired THEN "mode_normal" ELSE "mode_unpaired"

\* The pattern chosen at main.c:236 from the stored configuration.
startup_pattern(configured) ==
    IF configured THEN "mode_connecting_to_wifi" ELSE "mode_no_wifi_config"

\* led_status_set(status, pattern) from call site `by`.
led_status_set(pattern, by) ==
    /\ status' = pattern
    /\ led_by' = by
    /\ UNCHANGED last_signal

\* led_status_signal(status, pattern).
led_status_signal(pattern) ==
    /\ last_signal' = pattern
    /\ UNCHANGED << status, led_by >>

\* homekit_characteristic_notify(&switch_on, value).
homekit_characteristic_notify(value) ==
    /\ notify_count' = notify_count + 1
    /\ notify_value' = value

\* sdk_system_restart(): the firmware stops handling events.
sdk_system_restart == phase' = "restarted"

\* ------------------------------------------------------------------- Init
\* Static initializers: switch_on is false (main.c:99-101), initialized is
\* false (main.c:174); flash may hold any configuration and pairings.
InitProgram ==
    /\ phase = "boot"
    /\ switch_on = FALSE
    /\ relay_level = -1
    /\ status = "none"
    /\ last_signal = "none"
    /\ led_by = "none"
    /\ initialized = FALSE
    /\ server_inits = 0
    /\ ota_inits = 0
    /\ wpc = [c \in WifiCtx |-> "idle"]
    /\ wq = [c \in WifiCtx |-> FALSE]
    /\ wifi_last = "none"
    /\ connected_count = 0
    /\ pairings \in SUBSET Controllers
    /\ wifi_stored \in BOOLEAN
    /\ notify_count = 0
    /\ notify_value = FALSE
    /\ tasks = << >>
    /\ wifi_resets = 0
    /\ homekit_resets = 0

\* The firmware starts with false in the external ON storage.  main.c has no
\* statement that reads or writes that storage, so its content changes no
\* step of the firmware.
Init == InitProgram /\ stored_on = FALSE

\* The firmware starts with either value in the external ON storage.
InitStored == InitProgram /\ stored_on \in BOOLEAN

\* ----------------------------------------------------------------- startup
\* relay_init (main.c:103-106): enable the pin, drive it from switch_on.
relay_init == relay_level' = relay_write(switch_on)

\* user_init (main.c:217-237): relay_init, led_status_init, button_create,
\* wifi_config_init2, then the startup pattern from wifi_is_configured().
user_init ==
    /\ relay_init
    /\ led_status_set(startup_pattern(wifi_is_configured), "user_init")
    /\ phase' = "running"
    /\ UNCHANGED << switch_on, notify_count, notify_value >>
    /\ UNCHANGED << wifiVars, storeVars, resetVars >>

\* user_init up to and including wifi_config_init2 (main.c:218-234): the
\* relay is driven and the provisioning callback is registered; the startup
\* pattern is not set yet.
user_init_register ==
    /\ relay_init
    /\ phase' = "starting"
    /\ UNCHANGED << switch_on, notify_count, notify_value >>
    /\ UNCHANGED << ledVars, wifiVars, storeVars, resetVars >>

\* The last statement of user_init (main.c:236).
user_init_pattern ==
    /\ led_status_set(startup_pattern(wifi_is_configured), "user_init")
    /\ phase' = "running"
    /\ UNCHANGED << attrVars, wifiVars, storeVars, resetVars >>

\* on_wifi_config_event can be called once wifi_config_init2 has been given
\* it (main.c:234) and until the restart.
callback_registered == phase \in {"starting", "running"}

\* ------------------------------------------------------------ the attribute
\* switch_on_callback that leaves the relay alone.
switch_on_callback_no_write(on) ==
    /\ relay_level' = relay_level
    /\ UNCHANGED << notify_count, notify_value >>

\* switch_on_callback (main.c:108-110): the parameter `on` is not used; the
\* relay is driven from switch_on.value as it stands when the callback runs.
switch_on_callback(on) ==
    /\ relay_level' = relay_write(switch_on')
    /\ UNCHANGED << notify_count, notify_value >>

\* --------------------------------------------------------------- the button
\* Single press that is dropped while a reset task exists.
button_single_press_blocked_by_reset ==
    /\ tasks = << >>
    /\ notify_count < MaxNotify
    /\ switch_on' = ~switch_on
    /\ relay_level' = relay_write(switch_on')
    /\ homekit_characteristic_notify(switch_on')
    /\ UNCHANGED << ledVars, wifiVars, storeVars, resetVars, phase >>

\* Single press that notifies the value held before the toggle.
button_single_press_stale_notify ==
    /\ notify_count < MaxNotify
    /\ switch_on' = ~switch_on
    /\ relay_level' = relay_write(switch_on')
    /\ homekit_characteristic_notify(switch_on)
    /\ UNCHANGED << ledVars, wifiVars, storeVars, resetVars, phase >>

\* case button_event_single_press (main.c:114-119).
button_single_press ==
    /\ notify_count < MaxNotify
    /\ switch_on' = ~switch_on
    /\ relay_level' = relay_write(switch_on')
    /\ homekit_characteristic_notify(switch_on')
    /\ UNCHANGED << ledVars, wifiVars, storeVars, resetVars, phase >>

\* Double press that restarts only once the accessory is initialized.
button_double_press_if_initialized ==
    /\ IF initialized THEN sdk_system_restart ELSE UNCHANGED phase
    /\ UNCHANGED << attrVars, ledVars, wifiVars, storeVars, resetVars >>

\* case button_event_double_press (main.c:121-124).
button_double_press ==
    /\ sdk_system_restart
    /\ UNCHANGED << attrVars, ledVars, wifiVars, storeVars, resetVars >>

\* reset_configuration (main.c:94-97): xTaskCreate of a new
\* reset_configuration_task, unconditionally.
reset_configuration ==
    /\ Len(tasks) < MaxResetTasks
    /\ tasks' = Append(tasks, [pc |-> "start", did |-> << >>])
    /\ UNCHANGED << wifi_resets, homekit_resets >>

\* Long press that also switches the relay off before the reset.
button_long_press_relay_off ==
    /\ reset_configuration
    /\ relay_level' = relay_write(FALSE)
    /\ UNCHANGED << switch_on, notify_count, notify_value >>
    /\ UNCHANGED << ledVars, wifiVars, storeVars, phase >>

\* case button_event_long_press (main.c:126-128).
button_long_press ==
    /\ reset_configuration
    /\ UNCHANGED << attrVars, ledVars, wifiVars, storeVars, phase >>

\* default case that falls into the restart of the double press.
button_unknown_restarts ==
    /\ sdk_system_restart
    /\ UNCHANGED << attrVars, ledVars, wifiVars, storeVars, resetVars >>

\* default (main.c:130-131): a printf only.
button_unknown == UNCHANGED vars

\* button_callback (main.c:112-133).
button_callback(event) ==
    CASE event = "single_press" -> button_single_press
      [] event = "double_press" -> button_double_press
      [] event = "long_press"   -> button_long_press
      [] OTHER                  -> button_unknown

\* switch_identify that installs the pattern with led_status_set instead of
\* signalling it once.
switch_identify_persistent ==
    /\ led_status_set("mode_identify", "identify")
    /\ UNCHANGED << attrVars, wifiVars, storeVars, resetVars, phase >>

\* switch_identify (main.c:135-138).
switch_identify ==
    /\ led_status_signal("mode_identify")
    /\ UNCHANGED << attrVars, wifiVars, storeVars, resetVars, phase >>

\* ------------------------------------------------------- HomeKit lifecycle
\* on_homekit_event without the homekit_is_paired() test on removal.
on_homekit_event_no_query(event, store) ==
    IF event = "pairing_added"
    THEN led_status_set("mode_normal", "pairing_added")
    ELSE IF event = "pairing_removed"
         THEN led_status_set("mode_unpaired", "pairing_removed")
         ELSE UNCHANGED ledVars

\* on_homekit_event (main.c:164-172); `store` is the pairing storage as the
\* handler finds it.
on_homekit_event(event, store) ==
    IF event = "pairing_added"
    THEN led_status_set("mode_normal", "pairing_added")
    ELSE IF event = "pairing_removed" /\ ~homekit_is_paired(store)
         THEN led_status_set("mode_unpaired", "pairing_removed")
         ELSE UNCHANGED ledVars

\* --------------------------------------------------------- provisioning
\* on_wifi_config_event (main.c:181-192), one statement per step, run by
\* context c.  Line 182: the outer test, made when the event is delivered.
wifi_event_enter(c, event) ==
    /\ wpc[c] = "idle"
    /\ wpc' = [wpc EXCEPT ![c] = IF event = "connected" /\ ~initialized
                                 THEN "l183" ELSE "idle"]
    /\ UNCHANGED << initialized, server_inits, ota_inits, wq >>
    /\ UNCHANGED ledVars

\* Line 183: the inner test of the flag.
wifi_event_l183(c) ==
    /\ wpc[c] = "l183"
    /\ wpc' = [wpc EXCEPT ![c] = IF ~initialized THEN "l184" ELSE "idle"]
    /\ UNCHANGED << initialized, server_inits, ota_inits, wq >>
    /\ UNCHANGED ledVars

\* Line 184: homekit_server_init(&config).
wifi_event_l184(c) ==
    /\ wpc[c] = "l184"
    /\ server_inits' = server_inits + 1
    /\ wpc' = [wpc EXCEPT ![c] = "l185"]
    /\ UNCHANGED << initialized, ota_inits, wq >>
    /\ UNCHANGED ledVars

\* Line 185: ota_tftp_init_server(TFTP_PORT).
wifi_event_l185(c) ==
    /\ wpc[c] = "l185"
    /\ ota_inits' = ota_inits + 1
    /\ wpc' = [wpc EXCEPT ![c] = "l187"]
    /\ UNCHANGED << initialized, server_inits, wq >>
    /\ UNCHANGED ledVars

\* Line 187 left out: the flag is never set.
wifi_event_l187_no_flag(c) ==
    /\ wpc[c] = "l187"
    /\ wpc' = [wpc EXCEPT ![c] = "l189"]
    /\ UNCHANGED << initialized, server_inits, ota_inits, wq >>
    /\ UNCHANGED ledVars

\* Line 187: initialized = true.
wifi_event_l187(c) ==
    /\ wpc[c] = "l187"
    /\ initialized' = TRUE
    /\ wpc' = [wpc EXCEPT ![c] = "l189"]
    /\ UNCHANGED << server_inits, ota_inits, wq >>
    /\ UNCHANGED ledVars

\* Line 189 with the query negated.
wifi_event_l189_query_negated(c) ==
    /\ wpc[c] = "l189"
    /\ wq' = [wq EXCEPT ![c] = ~homekit_is_paired(pairings)]
    /\ wpc' = [wpc EXCEPT ![c] = "l189_set"]
    /\ UNCHANGED << initialized, server_inits, ota_inits >>
    /\ UNCHANGED ledVars

\* Line 189, the argument: homekit_is_paired() is evaluated.
wifi_event_l189_query(c) ==
    /\ wpc[c] = "l189"
    /\ wq' = [wq EXCEPT ![c] = homekit_is_paired(pairings)]
    /\ wpc' = [wpc EXCEPT ![c] = "l189_set"]
    /\ UNCHANGED << initialized, server_inits, ota_inits >>
    /\ UNCHANGED ledVars

\* Line 189, the call: led_status_set with the pattern chosen from the
\* query; the handler returns.
wifi_event_l189_set(c) ==
    /\ wpc[c] = "l189_set"
    /\ led_status_set(paired_pattern(wq[c]), "init")
    /\ wpc' = [wpc EXCEPT ![c] = "idle"]
    /\ UNCHANGED << initialized, server_inits, ota_inits, wq >>

\* The statements of on_wifi_config_event after its entry.
on_wifi_config_event_step(c) ==
    \/ wifi_event_l183(c)
    \/ wifi_event_l184(c)
    \/ wifi_event_l185(c)
    \/ wifi_event_l187(c)
    \/ wifi_event_l189_query(c)
    \/ wifi_event_l189_set(c)

\* ------------------------------------------------------------- reset task
\* What task t has done so far, extended by `steps`.
task_did(t, steps, next_pc) ==
    tasks' = [tasks EXCEPT ![t] = [pc |-> next_pc, did |-> @.did \o steps]]

\* main.c:75-76: signal the reset pattern, then vTaskDelay(500 ms).
reset_task_signal(t) ==
    /\ tasks[t].pc = "start"
    /\ led_status_signal("mode_reset")
    /\ task_did(t, << "signal_reset" >>, "delay1")
    /\ UNCHANGED << wifi_resets, homekit_resets, storeVars, phase >>

\* The two erases exchanged: homekit_server_reset() comes first.
reset_task_wifi_swapped(t) ==
    /\ tasks[t].pc = "delay1"
    /\ pairings' = {}
    /\ homekit_resets' = homekit_resets + 1
    /\ task_did(t, << "delay1", "erase_homekit" >>, "delay2")
    /\ UNCHANGED << wifi_resets, wifi_stored, stored_on, ledVars, phase >>

\* main.c:78-81: the first delay is over; wifi_config_reset(), then
\* vTaskDelay(1000 ms).
reset_task_wifi(t) ==
    /\ tasks[t].pc = "delay1"
    /\ wifi_stored' = FALSE
    /\ wifi_resets' = wifi_resets + 1
    /\ task_did(t, << "delay1", "erase_wifi" >>, "delay2")
    /\ UNCHANGED << homekit_resets, pairings, stored_on, ledVars, phase >>

\* main.c:83-86: the second delay is over; homekit_server_reset(), then
\* vTaskDelay(1000 ms).
reset_task_homekit(t) ==
    /\ tasks[t].pc = "delay2"
    /\ pairings' = {}
    /\ homekit_resets' = homekit_resets + 1
    /\ task_did(t, << "delay2", "erase_homekit" >>, "delay3")
    /\ UNCHANGED << wifi_resets, wifi_stored, stored_on, ledVars, phase >>

\* The last step without sdk_system_restart(): the task only deletes itself.
reset_task_restart_missing(t) ==
    /\ tasks[t].pc = "delay3"
    /\ task_did(t, << "delay3" >>, "done")
    /\ UNCHANGED << wifi_resets, homekit_resets, storeVars, ledVars, phase >>

\* main.c:88-89: the third delay is over; sdk_system_restart().
reset_task_restart(t) ==
    /\ tasks[t].pc = "delay3"
    /\ sdk_system_restart
    /\ task_did(t, << "delay3", "restart" >>, "done")
    /\ UNCHANGED << wifi_resets, homekit_resets, storeVars, ledVars >>

\* reset_configuration_task (main.c:73-92): task t runs from one blocking
\* call to the next.
reset_configuration_task(t) ==
    /\ \/ reset_task_signal(t)
       \/ reset_task_wifi(t)
       \/ reset_task_homekit(t)
       \/ reset_task_restart(t)
    /\ UNCHANGED << attrVars, wifiVars >>

\* ------------------------------------------------------------ environment
\* Power-on: the SDK calls user_init once.
Boot ==
    /\ phase = "boot"
    /\ user_init

\* The button driver reports a gesture.
ButtonEvent(event) ==
    /\ phase = "running"
    /\ button_callback(event)

\* A controller writes the ON characteristic: the server started at
\* main.c:184 stores the value, then invokes the callback (main.c:100).
RemoteWrite(v) ==
    /\ phase = "running"
    /\ server_inits > 0
    /\ switch_on' = v
    /\ switch_on_callback(v)
    /\ UNCHANGED << ledVars, wifiVars, storeVars, resetVars, phase >>

\* A controller asks the accessory to identify itself (main.c:150).
Identify ==
    /\ phase = "running"
    /\ server_inits > 0
    /\ switch_identify

\* The server stores a new pairing and reports it through config.on_event
\* (main.c:178).
PairingAdded(ctl) ==
    /\ phase = "running"
    /\ server_inits > 0
    /\ ctl \notin pairings
    /\ pairings' = pairings \cup {ctl}
    /\ on_homekit_event("pairing_added", pairings')
    /\ UNCHANGED << attrVars, wifiVars, wifi_stored, stored_on, resetVars,
                    phase >>

\* The server drops a pairing and reports it.
PairingRemoved(ctl) ==
    /\ phase = "running"
    /\ server_inits > 0
    /\ ctl \in pairings
    /\ pairings' = pairings \ {ctl}
    /\ on_homekit_event("pairing_removed", pairings')
    /\ UNCHANGED << attrVars, wifiVars, wifi_stored, stored_on, resetVars,
                    phase >>

\* wifi_config reports a status to the callback registered at main.c:234;
\* context c runs the handler up to its first statement boundary.
WifiEvent(c, event) ==
    /\ callback_registered
    /\ event = "connected" => connected_count < MaxConnected
    /\ wifi_last' = event
    /\ connected_count' =
           IF event = "connected" THEN connected_count + 1 ELSE connected_count
    /\ wifi_event_enter(c, event)
    /\ UNCHANGED << attrVars, storeVars, resetVars, phase >>

\* Context c runs the next statement of the handler.
WifiStep(c) ==
    /\ callback_registered
    /\ on_wifi_config_event_step(c)
    /\ UNCHANGED << wifi_last, connected_count >>
    /\ UNCHANGED << attrVars, storeVars, resetVars, phase >>

\* The scheduler runs reset task t.
ResetTaskStep(t) ==
    /\ phase = "running"
    /\ reset_configuration_task(t)

\* Events from one provisioning context, delivered one at a time.
Next ==
    \/ Boot
    \/ \E event \in ButtonEvents : ButtonEvent(event)
    \/ \E v \in BOOLEAN : RemoteWrite(v)
    \/ Identify
    \/ \E ctl \in Controllers : PairingAdded(ctl)
    \/ \E ctl \in Controllers : PairingRemoved(ctl)
    \/ \E event \in WifiEvents : WifiEvent(1, event)
    \/ WifiStep(1)
    \/ \E t \in 1..Len(tasks) : ResetTaskStep(t)

Spec == Init /\ [][Next]_vars

\* The scheduler runs some reset task.
ResetTasksRun == \E t \in 1..Len(tasks) : ResetTaskStep(t)

\* Spec with the reset tasks scheduled fairly: a task blocked in vTaskDelay
\* becomes ready when its delay expires, and a ready task is run.
SpecFair == Spec /\ WF_vars(ResetTasksRun)

\* Provisioning events delivered on two execution contexts, whose handlers
\* interleave statement by statement.
NextRace ==
    \/ Next
    \/ \E event \in WifiEvents : WifiEvent(2, event)
    \/ WifiStep(2)

SpecRace == Init /\ [][NextRace]_vars

\* user_init in two steps, with provisioning events deliverable as soon as
\* the callback is registered.
BootRegister ==
    /\ phase = "boot"
    /\ user_init_register

BootPattern ==
    /\ phase = "starting"
    /\ user_init_pattern

NextStartup ==
    \/ BootRegister
    \/ BootPattern
    \/ \E event \in ButtonEvents : ButtonEvent(event)
    \/ \E v \in BOOLEAN : RemoteWrite(v)
    \/ Identify
    \/ \E ctl \in Controllers : PairingAdded(ctl)
    \/ \E ctl \in Controllers : PairingRemoved(ctl)
    \/ \E event \in WifiEvents : WifiEvent(1, event)
    \/ WifiStep(1)
    \/ ResetTasksRun

SpecStartup == Init /\ [][NextStartup]_vars

\* The firmware of Spec started with either value in the external ON storage.
SpecStored == InitStored /\ [][Next]_vars

\* ====================================================================
\* Properties
\* ====================================================================
IsPrefix(s, t) == Len(s) <= Len(t) /\ s = SubSeq(t, 1, Len(s))

\* Tasks whose log contains `step`.
TasksThatDid(step) ==
    { t \in 1..Len(tasks) : \E i \in 1..Len(tasks[t].did) : tasks[t].did[i] = step }

\* C1: with provisioning events delivered one at a time, homekit_server_init
\* and ota_tftp_init_server are each called exactly once, by the handler of
\* the first Connected event; a Connected event that finds the flag set
\* returns at once and changes neither the flag, the persistent pattern nor
\* the two call counts.
C1_InitOnce ==
    /\ [](/\ server_inits <= 1
          /\ ota_inits <= 1
          /\ connected_count = 0 =>
                 server_inits = 0 /\ ota_inits = 0 /\ ~initialized
          /\ (connected_count >= 1 /\ wpc[1] = "idle") =>
                 initialized /\ server_inits = 1 /\ ota_inits = 1
          /\ connected_count >= 2 =>
                 initialized /\ server_inits = 1 /\ ota_inits = 1)
    /\ [][(WifiEvent(1, "connected") /\ initialized) =>
              /\ wpc'[1] = "idle"
              /\ UNCHANGED << initialized, status, led_by,
                              server_inits, ota_inits >>]_vars

\* C1 witness: a second Connected event has been handled after the first one
\* initialized the server.
C1_Witness ==
    /\ connected_count = 2
    /\ wpc[1] = "idle"
    /\ initialized
    /\ server_inits = 1
    /\ ota_inits = 1

\* C2: once user_init has run, after every single press and every remote
\* write the relay level is 1 exactly when switch_on is true.
C2_RelayFollowsAttribute ==
    phase # "boot" =>
        /\ switch_on => relay_level = 1
        /\ ~switch_on => relay_level = 0

\* C2 witness: a single press turned the outlet on (one notify, of true) and
\* a remote write then turned it off again.
C2_Witness ==
    /\ phase = "running"
    /\ notify_count = 1
    /\ notify_value = TRUE
    /\ switch_on = FALSE
    /\ relay_level = 0

\* C3: a remote write never notifies; a single press notifies exactly once,
\* with the new value, which is the negation of the value held before.
C3_EchoSuppression ==
    [][/\ (\E v \in BOOLEAN : RemoteWrite(v)) =>
              /\ notify_count' = notify_count
              /\ notify_value' = notify_value
       /\ ButtonEvent("single_press") =>
              /\ notify_count' = notify_count + 1
              /\ notify_value' = switch_on'
              /\ switch_on' = ~switch_on]_vars

\* C3 witness: a remote write turned the outlet on without a notify and a
\* single press then turned it off with one notify of false.
C3_Witness ==
    /\ phase = "running"
    /\ notify_count = 1
    /\ notify_value = FALSE
    /\ switch_on = FALSE
    /\ server_inits = 1

\* C4: a PairingRemoved event sets the persistent pattern to Unpaired when
\* no pairing remains and leaves it as it was when one remains.
C4_LastPairingRemoved ==
    [][\A ctl \in Controllers :
           PairingRemoved(ctl) =>
               IF pairings' = {}
               THEN status' = "mode_unpaired"
               ELSE status' = status /\ led_by' = led_by]_vars

\* C4 witness: the last pairing was removed and the handler set Unpaired.
C4_Witness ==
    /\ pairings = {}
    /\ homekit_resets = 0
    /\ status = "mode_unpaired"
    /\ led_by = "pairing_removed"

\* C5: every reset task performs a prefix of signal, delay, erase Wi-Fi,
\* delay, erase HomeKit, delay, restart, in that order and each once; what
\* the tasks logged is what was done to the stores; no HomeKit erase
\* happens before a Wi-Fi erase.
C5_ResetOrdering ==
    /\ \A t \in 1..Len(tasks) : IsPrefix(tasks[t].did, ResetSteps)
    /\ wifi_resets = Cardinality(TasksThatDid("erase_wifi"))
    /\ homekit_resets = Cardinality(TasksThatDid("erase_homekit"))
    /\ wifi_resets >= 1 => ~wifi_stored
    /\ homekit_resets >= 1 => wifi_resets >= 1
    /\ TasksThatDid("signal_reset") # {} => last_signal # "none"
    /\ TasksThatDid("restart") # {} => phase = "restarted"

\* C5 witness: a reset task ran its whole sequence.
C5_Witness ==
    \E t \in 1..Len(tasks) : tasks[t].did = ResetSteps

\* C6: the step from boot to running leaves the relay level equal to the
\* stored ON value (1 when the stored value is true, 0 when it is false) and
\* sets the persistent pattern to NoWifiConfig without a stored configuration
\* and to ConnectingToWifi with one.
C6_Startup ==
    [][(phase = "boot" /\ phase' = "running") =>
           /\ relay_level' = (IF stored_on THEN 1 ELSE 0)
           /\ status' = (IF wifi_stored THEN "mode_connecting_to_wifi"
                                        ELSE "mode_no_wifi_config")]_vars

\* C7 as claimed: at most one reset task ever exists, and the Wi-Fi erase
\* and the HomeKit erase each happen at most once.
C7_SecondLongPressIgnored ==
    /\ Len(tasks) <= 1
    /\ wifi_resets <= 1
    /\ homekit_resets <= 1

\* C8 as claimed: once a reset task has begun its sequence, the device does
\* not restart before both stores have been erased.
C8_NoRestartBeforeErase ==
    (phase = "restarted" /\ \E t \in 1..Len(tasks) : tasks[t].did # << >>) =>
        wifi_resets >= 1 /\ homekit_resets >= 1

\* C9: the persistent pattern is the resolution of whichever of the
\* pairing-added handler and the initialization applied last (Normal, or
\* the pattern of the pairing query made at line 189); initialization has
\* completed when its handler has returned; neither handler touches the
\* attribute or the relay.
C9_RaceSafety ==
    /\ [](/\ led_by = "pairing_added" => status = "mode_normal"
          /\ led_by = "init" =>
                 /\ status = (IF wq[1] THEN "mode_normal" ELSE "mode_unpaired")
                 /\ initialized /\ server_inits = 1 /\ ota_inits = 1
          /\ (server_inits >= 1 /\ wpc[1] = "idle") => initialized)
    /\ [][((\E ctl \in Controllers : PairingAdded(ctl))
            \/ (\E event \in WifiEvents : WifiEvent(1, event))
            \/ WifiStep(1)) =>
              UNCHANGED << switch_on, relay_level, notify_count >>]_vars

\* C9 witness: the pairing query found no pairing, a pairing was added, and
\* the initialization then applied its Unpaired resolution last.
C9_Witness ==
    /\ led_by = "init"
    /\ wpc[1] = "idle"
    /\ status = "mode_unpaired"
    /\ pairings # {}

\* C10 as claimed: before initialization the persistent pattern is the one
\* of the latest provisioning status delivered.
C10_PatternFollowsStatus ==
    (phase = "running" /\ ~initialized /\ wpc[1] = "idle") =>
        /\ wifi_last = "unconfigured" => status = "mode_no_wifi_config"
        /\ wifi_last = "connecting" => status = "mode_connecting_to_wifi"

\* C11: in the initializing handler the pairing query of line 189 is made
\* with the server started and the flag set, its result is whether a
\* pairing exists at that moment, and the call that follows sets the
\* persistent pattern to Normal for a true result and Unpaired for a false
\* one.
C11_PatternAfterInit ==
    [][/\ (WifiStep(1) /\ wpc[1] = "l189") =>
              /\ initialized /\ server_inits >= 1 /\ ota_inits >= 1
              /\ wq'[1] = (pairings # {})
              /\ status' = status
       /\ (WifiStep(1) /\ wpc[1] = "l189_set") =>
              /\ initialized /\ server_inits >= 1 /\ ota_inits >= 1
              /\ wq[1] => status' = "mode_normal"
              /\ ~wq[1] => status' = "mode_unpaired"
              /\ wpc'[1] = "idle"]_vars

\* C11 witness: the first Connected event found a stored pairing and its
\* handler set Normal; no pairing event has been handled.
C11_Witness ==
    /\ connected_count = 1
    /\ wpc[1] = "idle"
    /\ led_by = "init"
    /\ wq[1]
    /\ status = "mode_normal"
    /\ pairings # {}

\* C12: switch_identify signals the Identify pattern once and leaves the
\* persistent pattern, the attribute, the relay, the flag and everything
\* else as they were.
C12_IdentifyFrame ==
    [][Identify =>
           /\ last_signal' = "mode_identify"
           /\ UNCHANGED << status, led_by, attrVars, wifiVars, storeVars,
                           resetVars, phase >>]_vars

\* C12 witness: Identify was signalled on a paired, initialized accessory
\* whose outlet is on.
C12_Witness ==
    /\ phase = "running"
    /\ last_signal = "mode_identify"
    /\ initialized
    /\ status = "mode_normal"
    /\ switch_on
    /\ relay_level = 1

\* A reset task is between two of its steps, blocked in a vTaskDelay.
ResetInDelay ==
    \E t \in 1..Len(tasks) : tasks[t].pc \in {"delay1", "delay2", "delay3"}

\* C13: in every running state a double press is taken and restarts the
\* device in that one step, with the stored configuration, the pairings,
\* the attribute, the relay, the notify count and the reset tasks as they
\* were.
C13_DoublePressRestarts ==
    /\ [](phase = "running" =>
              ENABLED (ButtonEvent("double_press") /\ phase' = "restarted"))
    /\ [][ButtonEvent("double_press") =>
              /\ phase' = "restarted"
              /\ UNCHANGED << storeVars, attrVars, resetVars, ledVars,
                              wifiVars >>]_vars

\* C13 witness: a restart with no reset task ever created, before the
\* accessory was initialized, the stored configuration and a pairing intact
\* and the outlet still on.
C13_Witness ==
    /\ phase = "restarted"
    /\ tasks = << >>
    /\ ~initialized
    /\ wifi_stored
    /\ pairings # {}
    /\ switch_on
    /\ relay_level = 1

\* C14: a gesture that is none of the three known ones changes nothing.
C14_UnknownGestureIgnored ==
    /\ [](phase = "running" => ENABLED ButtonEvent("unknown"))
    /\ [][ButtonEvent("unknown") => UNCHANGED vars]_vars

\* C14 witness: a state with the outlet on and a reset in progress in which
\* the unknown gesture is taken and leaves every variable as it is.
C14_Witness ==
    /\ phase = "running"
    /\ switch_on
    /\ ResetInDelay
    /\ ENABLED (ButtonEvent("unknown") /\ UNCHANGED vars)

\* C15: the long press returns having only created the task: none of the
\* task's steps has run and nothing else has changed.  While a task is in
\* one of its delays a single press is still taken, and so is a remote
\* write once the server runs, and the relay follows each of them.
C15_ResetDoesNotBlockEvents ==
    /\ [][ButtonEvent("long_press") =>
              /\ Len(tasks') = Len(tasks) + 1
              /\ tasks'[Len(tasks')].did = << >>
              /\ \A t \in 1..Len(tasks) : tasks'[t] = tasks[t]
              /\ UNCHANGED << phase, wifi_resets, homekit_resets, storeVars,
                              ledVars, attrVars >>]_vars
    /\ []((phase = "running" /\ ResetInDelay) =>
              /\ notify_count < MaxNotify =>
                     ENABLED (ButtonEvent("single_press")
                              /\ switch_on' = ~switch_on
                              /\ relay_level' = (IF switch_on' THEN 1 ELSE 0))
              /\ server_inits >= 1 =>
                     \A v \in BOOLEAN :
                         ENABLED (RemoteWrite(v)
                                  /\ switch_on' = v
                                  /\ relay_level' = (IF v THEN 1 ELSE 0)))

\* C15 witness: the Wi-Fi erase is done, the task is in its second delay,
\* and both a single press and a remote write can be taken.
C15_Witness ==
    /\ phase = "running"
    /\ Len(tasks) = 1
    /\ tasks[1].pc = "delay2"
    /\ wifi_resets = 1
    /\ server_inits = 1
    /\ ENABLED (ButtonEvent("single_press") /\ relay_level' # relay_level)
    /\ ENABLED (RemoteWrite(~switch_on) /\ relay_level' # relay_level)

\* C16: under fair scheduling of the reset tasks, once a long press has
\* created a reset task the device eventually restarts.
C16_ResetEndsInRestart ==
    (Len(tasks) >= 1) ~> (phase = "restarted")

\* C16 witness: one reset task ran to its end, both stores were erased once
\* and the device restarted.
C16_Witness ==
    /\ phase = "restarted"
    /\ Len(tasks) = 1
    /\ tasks[1].pc = "done"
    /\ wifi_resets = 1
    /\ homekit_resets = 1

\* C17 as claimed: with Connected events handled on two contexts at once,
\* homekit_server_init and ota_tftp_init_server are each called at most
\* once.
C17_AtomicCheckAndSet ==
    /\ server_inits <= 1
    /\ ota_inits <= 1

\* C18 as claimed: with the flag set and no provisioning handler running,
\* the persistent pattern is Normal or Unpaired; the assignment at the end
\* of user_init never replaces a pattern set by a Connected event.
C18_InitializedPattern ==
    (phase = "running" /\ initialized /\ wpc[1] = "idle") =>
        status \in {"mode_normal", "mode_unpaired"}

\* C19 as claimed: once initialized and with no provisioning handler
\* running, the persistent pattern is Normal exactly when a pairing is
\* stored and Unpaired otherwise, also after homekit_server_reset.
C19_PatternMatchesPairing ==
    (initialized /\ wpc[1] = "idle") =>
        /\ pairings # {} => status = "mode_normal"
        /\ pairings = {} => status = "mode_unpaired"

\* C20: the attribute changes only in a single press or a remote write, and
\* the relay level only in user_init and in those two; provisioning events,
\* pairing events, identify, the other gestures and the reset tasks leave
\* both as they are.
C20_AttributeFrame ==
    [][/\ switch_on' # switch_on =>
              \/ ButtonEvent("single_press")
              \/ \E v \in BOOLEAN : RemoteWrite(v)
       /\ relay_level' # relay_level =>
              \/ Boot
              \/ ButtonEvent("single_press")
              \/ \E v \in BOOLEAN : RemoteWrite(v)
       /\ ((\E event \in WifiEvents : WifiEvent(1, event))
            \/ WifiStep(1)
            \/ (\E ctl \in Controllers : PairingAdded(ctl))
            \/ (\E ctl \in Controllers : PairingRemoved(ctl))
            \/ Identify
            \/ ButtonEvent("long_press")
            \/ ResetTasksRun) =>
              UNCHANGED << switch_on, relay_level >>]_vars

\* C20 witness: with the outlet on, the accessory was initialized, a pairing
\* was dropped, identify was signalled and a reset task erased both stores;
\* the outlet is still on.
C20_Witness ==
    /\ phase = "running"
    /\ switch_on
    /\ relay_level = 1
    /\ notify_count = 1
    /\ initialized
    /\ led_by = "pairing_removed"
    /\ last_signal = "mode_identify"
    /\ \E t \in 1..Len(tasks) : tasks[t].pc = "delay3"

====
